---- MODULE Spec2Model ----
(***************************************************************************)
(* Terminal input decoding: the ansi driver (peekInput / ReadInput /       *)
(* PeekInput over a bufio.Reader) and the input.Driver (readEvents with    *)
(* the bracketed-paste accumulator).                                       *)
(*                                                                         *)
(* Bytes are naturals 0..255.  A Go string is the sequence of its bytes.   *)
(* Buffers are indexed from 0 as in the source: At(p, i) is p[i].          *)
(***************************************************************************)
EXTENDS Naturals, Integers, Sequences, FiniteSets, TLC

\* ---------------------------------------------------------------- bounds
\* longest stream built from single bytes of Alphabet
MaxLen == 3
\* extra loop iterations explored after a dispatch loop stopped advancing
MaxSpin == 2
\* number of tokens of an input.Driver stream
MaxTokens == 3
\* number of reads an input.Driver stream is split into
MaxReads == 2

\* ------------------------------------------------------- ansi code points
ESC == 27
BEL == 7
US == 31
SP == 32
DEL == 127
SS3 == 143
DCS == 144
CSI == 155
ST == 156
OSC == 157
APC == 159
RuneError == 65533

At(p, i) == p[i + 1]

\* p[a:b] of Go
Slice(p, a, b) == SubSeq(p, a + 1, b)

\* string(b) for a byte b: the UTF-8 encoding of the code point b
GoString(b) ==
  IF b < 128 THEN <<b>> ELSE <<192 + (b \div 64), 128 + (b % 64)>>

\* ------------------------------------------------------------ utf8 package
\* utf8.RuneStart
RuneStart(b) == (b \div 64) # 2

\* size of the encoding announced by a lead byte, 0 when it is no lead byte
LeadSize(b) ==
  IF b < 128 THEN 1
  ELSE IF b >= 194 /\ b <= 223 THEN 2
  ELSE IF b >= 224 /\ b <= 239 THEN 3
  ELSE IF b >= 240 /\ b <= 244 THEN 4
  ELSE 0

\* accepted range of the second byte
AcceptLo(b) == IF b = 224 THEN 160 ELSE IF b = 240 THEN 144 ELSE 128
AcceptHi(b) == IF b = 237 THEN 159 ELSE IF b = 244 THEN 143 ELSE 191

IsCont(b) == b >= 128 /\ b <= 191

\* utf8.DecodeRune: the rune and its width
DecodeRune(s) ==
  IF Len(s) = 0 THEN [r |-> RuneError, w |-> 0]
  ELSE LET b0 == s[1]
           sz == LeadSize(b0)
       IN IF sz = 1 THEN [r |-> b0, w |-> 1]
          ELSE IF sz = 0 \/ Len(s) < sz THEN [r |-> RuneError, w |-> 1]
          ELSE IF s[2] < AcceptLo(b0) \/ s[2] > AcceptHi(b0)
            THEN [r |-> RuneError, w |-> 1]
          ELSE IF sz = 2
            THEN [r |-> (b0 % 32) * 64 + (s[2] % 64), w |-> 2]
          ELSE IF ~IsCont(s[3]) THEN [r |-> RuneError, w |-> 1]
          ELSE IF sz = 3
            THEN [r |-> (b0 % 16) * 4096 + (s[2] % 64) * 64 + (s[3] % 64),
                  w |-> 3]
          ELSE IF ~IsCont(s[4]) THEN [r |-> RuneError, w |-> 1]
          ELSE [r |-> (b0 % 8) * 262144 + (s[2] % 64) * 4096
                        + (s[3] % 64) * 64 + (s[4] % 64),
                w |-> 4]

\* ------------------------------------------------------------------ events
\* events are records of one shape: altrunes and action are the AltRunes and
\* Action of a key event, whose zero value is the press action
KeyEvent(sym, runes, mod) ==
  [type |-> "key", sym |-> sym, runes |-> runes, mod |-> mod, raw |-> <<>>,
   altrunes |-> <<>>, action |-> "press"]

\* the zero value a map miss returns
ZeroKey == KeyEvent("", <<>>, {})

UnknownEvent(seq) ==
  [type |-> "unknown", sym |-> "", runes |-> <<>>, mod |-> {}, raw |-> seq,
   altrunes |-> <<>>, action |-> ""]

MouseEvent(kind, bytes) ==
  [type |-> kind, sym |-> "", runes |-> <<>>, mod |-> {}, raw |-> bytes,
   altrunes |-> <<>>, action |-> ""]

\* MultiEvent, a list of events returned as one: raw holds its members
MultiEvent(es) ==
  [type |-> "multi", sym |-> "", runes |-> <<>>, mod |-> {}, raw |-> es,
   altrunes |-> <<>>, action |-> ""]

ColorEvent(kind, data) ==
  [type |-> kind, sym |-> "", runes |-> <<>>, mod |-> {}, raw |-> data,
   altrunes |-> <<>>, action |-> ""]

\* k.Mod |= input.Alt
WithAlt(k) == [k EXCEPT !.mod = @ \cup {"Alt"}]

\* ---------------------------------------------------------- sequence table
\* the single byte control codes, ESC, DEL and SPACE
ControlKey(b) ==
  IF b = 9 THEN KeyEvent("Tab", <<>>, {})
  ELSE IF b = 13 THEN KeyEvent("Enter", <<>>, {})
  ELSE IF b = ESC THEN KeyEvent("Escape", <<>>, {})
  ELSE IF b = SP THEN KeyEvent("Space", <<32>>, {})
  ELSE IF b = DEL THEN KeyEvent("Backspace", <<>>, {})
  ELSE IF b >= 1 /\ b <= 26 THEN KeyEvent("", <<b + 96>>, {"Ctrl"})
  ELSE KeyEvent("", <<b + 64>>, {"Ctrl"})

ControlBytes == (0..US) \cup {SP, DEL}

SeqKeys ==
  { <<ESC, 91, 65>>, <<ESC, 91, 66>>, <<ESC, 91, 67>>, <<ESC, 91, 68>>,
    <<ESC, 79, 65>>, <<ESC, 79, 80>>, <<ESC, 91, 50, 126>>,
    <<ESC, 91, 51, 36>> }

SeqKey(s) ==
  IF s = <<ESC, 91, 65>> THEN KeyEvent("Up", <<>>, {})
  ELSE IF s = <<ESC, 91, 66>> THEN KeyEvent("Down", <<>>, {})
  ELSE IF s = <<ESC, 91, 67>> THEN KeyEvent("Right", <<>>, {})
  ELSE IF s = <<ESC, 91, 68>> THEN KeyEvent("Left", <<>>, {})
  ELSE IF s = <<ESC, 79, 65>> THEN KeyEvent("Up", <<>>, {})
  ELSE IF s = <<ESC, 79, 80>> THEN KeyEvent("F1", <<>>, {})
  ELSE IF s = <<ESC, 91, 50, 126>> THEN KeyEvent("Insert", <<>>, {})
  ELSE KeyEvent("Delete", <<>>, {"Shift"})

TableKeys == { <<b>> : b \in ControlBytes } \cup SeqKeys

\* k, ok := d.table[s]
TableHas(s) == s \in TableKeys

TableGet(s) ==
  IF ~TableHas(s) THEN ZeroKey
  ELSE IF Len(s) = 1 THEN ControlKey(s[1])
  ELSE SeqKey(s)

\* ---------------------------------------------------------------- scanning
RECURSIVE GoStringsFrom(_, _)
GoStringsFrom(bs, k) ==
  IF k > Len(bs) THEN <<>> ELSE GoString(bs[k]) \o GoStringsFrom(bs, k + 1)

\* seq += string(p[i]) over a run of bytes
GoStrings(bs) == GoStringsFrom(bs, 1)

RECURSIVE ScanRange(_, _, _, _)
\* for ; i < len(p) && p[i] >= lo && p[i] <= hi; i++
ScanRange(p, i, lo, hi) ==
  IF i < Len(p) /\ At(p, i) >= lo /\ At(p, i) <= hi
  THEN ScanRange(p, i + 1, lo, hi)
  ELSE i

RECURSIVE ScanUntil(_, _, _)
\* for ; i < len(p) && p[i] is no terminator; i++
ScanUntil(p, i, stops) ==
  IF i < Len(p) /\ At(p, i) \notin stops
  THEN ScanUntil(p, i + 1, stops)
  ELSE i

\* index (from 1) of the first b in s, 0 when absent
FirstIndex(s, b) ==
  IF \E k \in 1..Len(s) : s[k] = b
  THEN CHOOSE k \in 1..Len(s) : s[k] = b /\ \A m \in 1..(k - 1) : s[m] # b
  ELSE 0

\* the introducer: the 8-bit byte, or ESC followed by the 7-bit byte
Intro(i, p, intro8, intro7) ==
  LET a == IF At(p, i) = intro8 \/ At(p, i) = ESC
           THEN [seq |-> GoString(At(p, i)), i |-> i + 1]
           ELSE [seq |-> <<>>, i |-> i]
  IN IF a.i < Len(p) /\ a.i > 0 /\ At(p, a.i - 1) = ESC /\ At(p, a.i) = intro7
     THEN [seq |-> a.seq \o GoString(intro7), i |-> a.i + 1]
     ELSE a

\* csi.Initial(): the private marker < = > ? opening the parameters, or 0
CsiInitial(seq) ==
  LET body == IF Len(seq) >= 2 THEN Slice(seq, 2, Len(seq)) ELSE <<>>
  IN IF body # <<>> /\ body[1] >= 60 /\ body[1] <= 63 THEN body[1] ELSE 0

\* ---------------------------------------------------------- mouse decoders
\* the byte offset of the X10 encoding
x10MouseByteOffset == 32

\* parseX10MouseEvent: the bytes after ESC [ M are the button, the column and
\* the row, each offset by 32, column and row 1-based; the event carries the
\* fields of the bytes the slice holds, in that order
parseX10MouseEvent(buf) ==
  MouseEvent("x10mouse",
             [k \in 1..(Len(buf) - 3) |->
                IF k = 1 THEN buf[3 + k] - x10MouseByteOffset
                ELSE buf[3 + k] - x10MouseByteOffset - 1])

\* ------------------------------------------------- Kitty keyboard protocol
RECURSIVE SplitBy(_, _)
\* bytes.Split(bs, sep)
SplitBy(bs, sep) ==
  IF \A k \in 1..Len(bs) : bs[k] # sep THEN <<bs>>
  ELSE <<SubSeq(bs, 1, FirstIndex(bs, sep) - 1)>>
         \o SplitBy(SubSeq(bs, FirstIndex(bs, sep) + 1, Len(bs)), sep)

RECURSIVE ToUint(_, _)
\* the decimal number written by the digits of bs, 0 when there is none
ToUint(bs, n) ==
  IF bs = <<>> THEN n
  ELSE ToUint(Tail(bs),
              IF bs[1] >= 48 /\ bs[1] <= 57 THEN n * 10 + (bs[1] - 48) ELSE n)

\* the sub-values of one parameter
SubParams(part) ==
  [b \in 1..Len(SplitBy(part, 58)) |-> ToUint(SplitBy(part, 58)[b], 0)]

\* ansi.Params: the parameters split at ';', each split at ':' into numbers
Params(bs) ==
  IF bs = <<>> THEN <<>>
  ELSE [a \in 1..Len(SplitBy(bs, 59)) |-> SubParams(SplitBy(bs, 59)[a])]

\* csi.Params(): the parameter bytes that follow the introducer
CsiParams(seq) ==
  IF Len(seq) < 2 THEN <<>> ELSE Slice(seq, 2, ScanRange(seq, 2, 48, 63))

\* utf8.ValidRune
ValidRune(r) == (r >= 0 /\ r < 55296) \/ (r > 57343 /\ r <= 1114111)

\* kittyKeyMap: the codes that name a key symbol
kittyKeyMap ==
  [c \in {9, 13, 27, 127} |->
     IF c = 9 THEN "Tab" ELSE IF c = 13 THEN "Enter"
     ELSE IF c = 27 THEN "Escape" ELSE "Backspace"]

\* fromKittyMod: the modifiers of the bits of a mask
fromKittyMod(m) ==
  (IF (m \div 1) % 2 = 1 THEN {"Shift"} ELSE {})
    \cup (IF (m \div 2) % 2 = 1 THEN {"Alt"} ELSE {})
    \cup (IF (m \div 4) % 2 = 1 THEN {"Ctrl"} ELSE {})
    \cup (IF (m \div 8) % 2 = 1 THEN {"Super"} ELSE {})
    \cup (IF (m \div 16) % 2 = 1 THEN {"Hyper"} ELSE {})
    \cup (IF (m \div 32) % 2 = 1 THEN {"Meta"} ELSE {})
    \cup (IF (m \div 64) % 2 = 1 THEN {"CapsLock"} ELSE {})
    \cup (IF (m \div 128) % 2 = 1 THEN {"NumLock"} ELSE {})

\* if len(params) > 0: the key symbol or the rune of the code, and its
\* alternate rune
kittyCode(params, key) ==
  IF Len(params) = 0 THEN key
  ELSE IF params[1][1] \in DOMAIN kittyKeyMap
    THEN [key EXCEPT !.sym = kittyKeyMap[params[1][1]]]
  ELSE [key EXCEPT
          !.runes = <<IF ValidRune(params[1][1]) THEN params[1][1]
                      ELSE RuneError>>,
          !.altrunes = IF Len(params[1]) > 1 /\ ValidRune(params[1][2])
                       THEN <<params[1][2]>> ELSE @]

\* the action selected by params[1][1]
kittyAction(a, old) ==
  IF a \in {0, 1} THEN "press"
  ELSE IF a = 2 THEN "repeat"
  ELSE IF a = 3 THEN "release"
  ELSE old

\* if len(params) > 1: the modifiers of the mask minus 1, and the action
kittyMod(params, key) ==
  IF Len(params) <= 1 THEN key
  ELSE [key EXCEPT
          !.mod = IF params[2][1] > 1 THEN fromKittyMod(params[2][1] - 1)
                  ELSE @,
          !.action = IF Len(params[2]) > 1 THEN kittyAction(params[2][2], @)
                     ELSE @]

\* if len(params) > 2: the alternate rune
kittyAlt(params, key) ==
  IF Len(params) <= 2 THEN key
  ELSE [key EXCEPT
          !.altrunes = <<IF ValidRune(params[3][1]) THEN params[3][1]
                         ELSE RuneError>>]

\* the key event of a CSI u sequence with these parameters
kittyKey(params) ==
  kittyAlt(params, kittyMod(params, kittyCode(params, ZeroKey)))

\* ------------------------------------------------------------- CSI parser

\* no final byte in 0x40-0x7E: the scanned bytes are looked up verbatim
csiNoFinal(seq, alt) ==
  [n |-> Len(seq),
   e |-> IF TableHas(seq)
         THEN (IF alt THEN WithAlt(TableGet(seq)) ELSE TableGet(seq))
         ELSE UnknownEvent(seq)]

parseCsi(i, p, alt) ==
  LET a == Intro(i, p, CSI, 91)
      j1 == ScanRange(p, a.i, 48, 63)
      j2 == ScanRange(p, j1, 32, 47)
      seq == a.seq \o GoStrings(Slice(p, a.i, j2))
  IN IF j2 >= Len(p) \/ At(p, j2) < 64 \/ At(p, j2) > 126
     THEN csiNoFinal(seq, alt)
     ELSE LET full == seq \o GoString(At(p, j2))
              initial == CsiInitial(full)
              cmd == At(p, j2)
          IN IF TableHas(full) THEN [n |-> Len(full), e |-> TableGet(full)]
             ELSE IF full = <<ESC, 91, 77>> /\ j2 + 3 < Len(p)
               THEN [n |-> Len(full) + 3,
                     e |-> parseX10MouseEvent(
                             full \o Slice(p, j2 + 1, j2 + 3))]
             ELSE IF initial = 60 /\ cmd \in {109, 77}
               THEN [n |-> Len(full), e |-> MouseEvent("sgrmouse", full)]
             ELSE IF initial = 0 /\ cmd = 117
               THEN [n |-> Len(full), e |-> kittyKey(Params(CsiParams(full)))]
             ELSE [n |-> Len(full), e |-> UnknownEvent(full)]

\* ------------------------------------------------------------- SS3 parser
parseSs3(i, p, alt) ==
  LET a == Intro(i, p, SS3, 79)
  IN IF a.i >= Len(p) \/ At(p, a.i) < 33 \/ At(p, a.i) > 126
     THEN [n |-> Len(a.seq),
           e |-> IF TableHas(a.seq)
                 THEN (IF alt THEN WithAlt(TableGet(a.seq))
                       ELSE TableGet(a.seq))
                 ELSE UnknownEvent(a.seq)]
     ELSE LET full == a.seq \o GoString(At(p, a.i))
          IN IF TableHas(full)
             THEN [n |-> Len(full),
                   e |-> IF alt THEN WithAlt(TableGet(full))
                         ELSE TableGet(full)]
             ELSE [n |-> Len(full), e |-> UnknownEvent(full)]

\* ------------------------------------------------------------- OSC parser
\* the sequence scanned up to and including its terminator; done is FALSE
\* when the buffer ended first
ScanString(i, p, intro8, intro7, stops) ==
  LET a == Intro(i, p, intro8, intro7)
      j == ScanUntil(p, a.i, stops)
      body == a.seq \o GoStrings(Slice(p, a.i, j))
  IN IF j >= Len(p) THEN [seq |-> body, done |-> FALSE]
     ELSE LET t == body \o GoString(At(p, j))
          IN IF Len(p) > j + 1 /\ At(p, j) = ESC /\ At(p, j + 1) = 92
             THEN [seq |-> t \o GoString(92), done |-> TRUE]
             ELSE [seq |-> t, done |-> TRUE]

\* bytes of the introducer at the head of an OSC sequence
OscIntroLen(seq) ==
  IF Len(seq) >= 2 /\ seq[1] = ESC /\ seq[2] = 93 THEN 2
  ELSE IF Len(seq) >= 2 /\ seq[1] = 194 /\ seq[2] = OSC THEN 2
  ELSE IF Len(seq) >= 1 /\ seq[1] = OSC THEN 1
  ELSE 0

\* bytes of the terminator at the tail of an OSC sequence
OscTermLen(seq) ==
  LET n == Len(seq)
  IN IF n >= 2 /\ seq[n - 1] = ESC /\ seq[n] = 92 THEN 2
     ELSE IF n >= 2 /\ seq[n - 1] = 194 /\ seq[n] = ST THEN 2
     ELSE IF n >= 1 /\ seq[n] \in {BEL, ESC, ST} THEN 1
     ELSE 0

OscPayload(seq) ==
  LET a == OscIntroLen(seq)
      b == Len(seq) - OscTermLen(seq)
  IN IF a < b THEN Slice(seq, a, b) ELSE <<>>

\* osc.Identifier(): the payload before the first ';'
OscIdentifier(seq) ==
  LET pl == OscPayload(seq)
      k == FirstIndex(pl, 59)
  IN IF k = 0 THEN pl ELSE SubSeq(pl, 1, k - 1)

\* osc.Data(): the payload after the first ';'
OscData(seq) ==
  LET pl == OscPayload(seq)
      k == FirstIndex(pl, 59)
  IN IF k = 0 THEN <<>> ELSE SubSeq(pl, k + 1, Len(pl))

parseOsc(i, p, alt) ==
  LET s == ScanString(i, p, OSC, 93, {BEL, ESC, ST})
      id == OscIdentifier(s.seq)
  IN IF ~s.done THEN [n |-> Len(s.seq), e |-> UnknownEvent(s.seq)]
     ELSE IF id = <<49, 48>>
       THEN [n |-> Len(s.seq), e |-> ColorEvent("fgcolor", OscData(s.seq))]
     ELSE IF id = <<49, 49>>
       THEN [n |-> Len(s.seq), e |-> ColorEvent("bgcolor", OscData(s.seq))]
     ELSE IF id = <<49, 50>>
       THEN [n |-> Len(s.seq), e |-> ColorEvent("cursorcolor", OscData(s.seq))]
     ELSE [n |-> Len(s.seq), e |-> UnknownEvent(s.seq)]

\* ------------------------------------------------------- DCS / APC parsers
parseCtrl(intro8, intro7, i, p) ==
  LET s == ScanString(i, p, intro8, intro7, {ST, ESC})
  IN [n |-> Len(s.seq), e |-> UnknownEvent(s.seq)]

parseDcs(i, p, alt) == parseCtrl(DCS, 80, i, p)

parseApc(i, p, alt) == parseCtrl(APC, 95, i, p)

\* ---------------------------------------------------- the dispatch loop body
RECURSIVE CollectRunes(_, _, _)
\* for rw := 0; i < len(p); i += rw { r, rw = utf8.DecodeRune(p[i:]) ... }
CollectRunes(p, i, runes) ==
  IF i >= Len(p) THEN [i |-> i, runes |-> runes]
  ELSE LET d == DecodeRune(Slice(p, i, Len(p)))
       IN IF d.r = RuneError \/ d.r <= US \/ d.r = DEL \/ d.r = SP
          THEN [i |-> i, runes |-> runes]
          ELSE CollectRunes(p, i + d.w, Append(runes, d.r))

\* n, e := seqFn(i, p, alt); *np += n; *ne = append(*ne, e)
handleSeq(r, i, ev) == [i |-> i + r.n, ev |-> Append(ev, r.e)]

\* the statements after the switch on b
AfterSwitch(p, b, i, ev, alt) ==
  IF b <= US \/ b = DEL \/ b = SP
  THEN LET k == TableGet(GoString(b))
       IN [i |-> i + 1, ev |-> Append(ev, IF alt THEN WithAlt(k) ELSE k)]
  ELSE IF RuneStart(b)
  THEN LET c == CollectRunes(p, i, <<>>)
           k == KeyEvent("", c.runes, {})
       IN [i |-> c.i, ev |-> Append(ev, IF alt THEN WithAlt(k) ELSE k)]
  ELSE [i |-> i, ev |-> ev]

RECURSIVE Dispatch(_, _, _, _, _)
\* one iteration of the loop over p, from the label begin; the goto of the
\* Alt case re-enters with the next byte
Dispatch(p, bufferedBytes, i, ev, alt) ==
  LET b == At(p, i)
  IN IF b = ESC
     THEN IF bufferedBytes = 1
          THEN [i |-> i + 1, ev |-> Append(ev, TableGet(<<ESC>>))]
          ELSE IF i + 1 >= Len(p) THEN AfterSwitch(p, b, i, ev, alt)
          ELSE IF At(p, i + 1) = 79 THEN handleSeq(parseSs3(i, p, alt), i, ev)
          ELSE IF At(p, i + 1) = 80 THEN handleSeq(parseDcs(i, p, alt), i, ev)
          ELSE IF At(p, i + 1) = 91 THEN handleSeq(parseCsi(i, p, alt), i, ev)
          ELSE IF At(p, i + 1) = 93 THEN handleSeq(parseOsc(i, p, alt), i, ev)
          ELSE IF At(p, i + 1) = 95 THEN handleSeq(parseApc(i, p, alt), i, ev)
          ELSE Dispatch(p, bufferedBytes, i + 1, ev, TRUE)
     ELSE IF b = SS3 THEN handleSeq(parseSs3(i, p, alt), i, ev)
     ELSE IF b = DCS
       THEN LET h == handleSeq(parseDcs(i, p, alt), i, ev)
            IN AfterSwitch(p, b, h.i, h.ev, alt)
     ELSE IF b = CSI THEN handleSeq(parseCsi(i, p, alt), i, ev)
     ELSE IF b = OSC THEN handleSeq(parseOsc(i, p, alt), i, ev)
     ELSE IF b = APC THEN handleSeq(parseApc(i, p, alt), i, ev)
     ELSE AfterSwitch(p, b, i, ev, alt)

\* ------------------------------------------- input.EventParser.ParseSequence
PasteStartSeq == <<ESC, 91, 50, 48, 48, 126>>
PasteEndSeq == <<ESC, 91, 50, 48, 49, 126>>

PasteStartEvent ==
  [type |-> "pastestart", sym |-> "", runes |-> <<>>, mod |-> {}, raw |-> <<>>,
   altrunes |-> <<>>, action |-> ""]

PasteEndEvent ==
  [type |-> "pasteend", sym |-> "", runes |-> <<>>, mod |-> {}, raw |-> <<>>,
   altrunes |-> <<>>, action |-> ""]

PasteEvent(runes) ==
  [type |-> "paste", sym |-> "", runes |-> runes, mod |-> {}, raw |-> <<>>,
   altrunes |-> <<>>, action |-> ""]

\* the nil event returned with a count of 0 when the bytes are incomplete
NilEvent ==
  [type |-> "nil", sym |-> "", runes |-> <<>>, mod |-> {}, raw |-> <<>>,
   altrunes |-> <<>>, action |-> ""]

Incomplete == [n |-> 0, e |-> NilEvent]

\* bytes of the introducer: 1 for the 8-bit form, 2 for ESC and the 7-bit byte
IntroLen(buf) == IF buf[1] = ESC THEN 2 ELSE 1

TableOrUnknown(seq) ==
  IF TableHas(seq) THEN TableGet(seq) ELSE UnknownEvent(seq)

ParseCsiSeq(buf) ==
  LET j1 == ScanRange(buf, IntroLen(buf), 48, 63)
      j2 == ScanRange(buf, j1, 32, 47)
  IN IF j2 >= Len(buf) THEN Incomplete
     ELSE IF At(buf, j2) < 64 \/ At(buf, j2) > 126
       THEN [n |-> j2, e |-> TableOrUnknown(Slice(buf, 0, j2))]
     ELSE LET seq == Slice(buf, 0, j2 + 1)
              cmd == At(buf, j2)
              initial == IF j1 > IntroLen(buf) /\ At(buf, IntroLen(buf)) >= 60
                         THEN At(buf, IntroLen(buf)) ELSE 0
          IN IF TableHas(seq) THEN [n |-> j2 + 1, e |-> TableGet(seq)]
             ELSE IF seq = PasteStartSeq THEN [n |-> j2 + 1, e |-> PasteStartEvent]
             ELSE IF seq = PasteEndSeq THEN [n |-> j2 + 1, e |-> PasteEndEvent]
             ELSE IF seq = <<ESC, 91, 77>>
               THEN IF Len(buf) >= j2 + 4
                    THEN [n |-> j2 + 4,
                          e |-> parseX10MouseEvent(Slice(buf, 0, j2 + 4))]
                    ELSE Incomplete
             ELSE IF initial = 60 /\ cmd \in {109, 77}
               THEN [n |-> j2 + 1, e |-> MouseEvent("sgrmouse", seq)]
             ELSE IF initial = 0 /\ cmd = 117
               THEN [n |-> j2 + 1,
                     e |-> kittyKey(Params(Slice(buf, IntroLen(buf), j1)))]
             ELSE [n |-> j2 + 1, e |-> UnknownEvent(seq)]

ParseSs3Seq(buf) ==
  LET a == IntroLen(buf)
  IN IF a >= Len(buf) THEN Incomplete
     ELSE IF At(buf, a) < 33 \/ At(buf, a) > 126
       THEN [n |-> a, e |-> TableOrUnknown(Slice(buf, 0, a))]
     ELSE [n |-> a + 1, e |-> TableOrUnknown(Slice(buf, 0, a + 1))]

\* length of the string sequence through its terminator, 0 when incomplete
StringSeqLen(buf, stops) ==
  LET j == ScanUntil(buf, IntroLen(buf), stops)
  IN IF j >= Len(buf) THEN 0
     ELSE IF At(buf, j) = ESC /\ j + 1 < Len(buf) /\ At(buf, j + 1) = 92
       THEN j + 2
     ELSE j + 1

ParseOscSeq(buf) ==
  LET n == StringSeqLen(buf, {BEL, ESC, ST})
      seq == Slice(buf, 0, n)
      id == OscIdentifier(seq)
  IN IF n = 0 THEN Incomplete
     ELSE IF id = <<49, 48>> THEN [n |-> n, e |-> ColorEvent("fgcolor", OscData(seq))]
     ELSE IF id = <<49, 49>> THEN [n |-> n, e |-> ColorEvent("bgcolor", OscData(seq))]
     ELSE IF id = <<49, 50>>
       THEN [n |-> n, e |-> ColorEvent("cursorcolor", OscData(seq))]
     ELSE [n |-> n, e |-> UnknownEvent(seq)]

ParseCtrlSeq(buf) ==
  LET n == StringSeqLen(buf, {ST, ESC})
  IN IF n = 0 THEN Incomplete
     ELSE [n |-> n, e |-> UnknownEvent(Slice(buf, 0, n))]

\* a code point is validly encoded unless DecodeRune reports (RuneError, 1)
ValidRuneAt(s) ==
  LET d == DecodeRune(s) IN d.w > 0 /\ ~(d.r = RuneError /\ d.w = 1)

RECURSIVE CollectValid(_, _, _)
\* the run of validly encoded code points that are no control, DEL or SPACE
CollectValid(buf, i, runes) ==
  IF i >= Len(buf) THEN [i |-> i, runes |-> runes]
  ELSE LET d == DecodeRune(Slice(buf, i, Len(buf)))
       IN IF ~ValidRuneAt(Slice(buf, i, Len(buf)))
             \/ d.r <= US \/ d.r = DEL \/ d.r = SP
          THEN [i |-> i, runes |-> runes]
          ELSE CollectValid(buf, i + d.w, Append(runes, d.r))

RECURSIVE ParseSequence(_)
\* the next unit of buf: the bytes it takes and its event
ParseSequence(buf) ==
  IF buf = <<>> THEN Incomplete
  ELSE LET b == buf[1]
       IN IF b = ESC
          THEN IF Len(buf) = 1 THEN [n |-> 1, e |-> TableGet(<<ESC>>)]
               ELSE IF buf[2] = 79 THEN ParseSs3Seq(buf)
               ELSE IF buf[2] = 80 THEN ParseCtrlSeq(buf)
               ELSE IF buf[2] = 91 THEN ParseCsiSeq(buf)
               ELSE IF buf[2] = 93 THEN ParseOscSeq(buf)
               ELSE IF buf[2] = 95 THEN ParseCtrlSeq(buf)
               ELSE LET r == ParseSequence(Tail(buf))
                    IN IF r.n = 0 THEN Incomplete
                       ELSE [n |-> r.n + 1, e |-> WithAlt(r.e)]
          ELSE IF b = SS3 THEN ParseSs3Seq(buf)
          ELSE IF b = CSI THEN ParseCsiSeq(buf)
          ELSE IF b = OSC THEN ParseOscSeq(buf)
          ELSE IF b = DCS \/ b = APC THEN ParseCtrlSeq(buf)
          ELSE IF b <= US \/ b = DEL \/ b = SP
            THEN [n |-> 1, e |-> TableGet(<<b>>)]
          ELSE LET c == CollectValid(buf, 0, <<>>)
               IN IF c.i > 0 THEN [n |-> c.i, e |-> KeyEvent("", c.runes, {})]
                  ELSE [n |-> 1, e |-> UnknownEvent(<<b>>)]

\* d.parser.LookupSequence
LookupSequence(seq) == [ok |-> TableHas(seq), k |-> TableGet(seq)]

\* ------------------------------------------------ input.Driver.readEvents
\* the paste accumulator: nil, or the bytes captured so far
NilPaste == [nil |-> TRUE, buf |-> <<>>]

\* r, w := utf8.DecodeRune(d.paste); if r != utf8.RuneError { append }
keepRune(d) == IF d.r # RuneError THEN <<d.r>> ELSE <<>>

RECURSIVE pasteRunesFrom(_, _)
\* for len(d.paste) > 0 { ...; d.paste = d.paste[w:] }, k bytes being cut
pasteRunesFrom(bytes, k) ==
  IF k >= Len(bytes) THEN <<>>
  ELSE CHOOSE rs \in { keepRune(d) \o pasteRunesFrom(bytes, k + d.w) :
                        d \in {DecodeRune(Slice(bytes, k, Len(bytes)))} } : TRUE

\* the captured bytes decoded into runes
pasteRunes(bytes) == pasteRunesFrom(bytes, 0)

\* appendPasteEnd with the two events in the other order
appendPasteEndFirst(e, runes, pev) == e \o <<pev, PasteEvent(runes)>>

\* e = append(e, PasteEvent(paste)) in the case, e = append(e, ev) after it
appendPasteEnd(e, runes, pev) == e \o <<PasteEvent(runes), pev>>

\* lookupFirst skipped while a paste is being captured
lookupFirstIdle(buf, st) == LookupSequence(buf).ok /\ st.nil

\* the table lookup that precedes the loop
lookupFirst(buf, st) == LookupSequence(buf).ok

\* readCase letting a paste-start marker through while a paste is captured
readCaseNested(buf, s, r) ==
     IF ~s.paste.nil /\ r.e.type \notin {"pasteend", "pastestart"}
     THEN [s EXCEPT !.i = s.i + 1,
                    !.paste = [nil |-> FALSE,
                               buf |-> Append(s.paste.buf, At(buf, s.i))]]
     ELSE IF r.e.type = "unknown"
       THEN LET l == LookupSequence(Slice(buf, s.i, s.i + r.n))
            IN [s EXCEPT !.i = s.i + r.n,
                         !.e = Append(s.e, IF l.ok THEN l.k ELSE r.e)]
     ELSE IF r.e.type = "pastestart"
       THEN [s EXCEPT !.i = s.i + r.n,
                      !.paste = [nil |-> FALSE, buf |-> <<>>],
                      !.e = Append(s.e, r.e)]
     ELSE IF r.e.type = "pasteend"
       THEN [s EXCEPT !.i = s.i + r.n,
                      !.paste = NilPaste,
                      !.e = appendPasteEnd(s.e, pasteRunes(s.paste.buf), r.e),
                      !.acc = s.paste.buf]
     ELSE IF r.e.type = "nil" THEN [s EXCEPT !.i = s.i + 1]
     ELSE IF r.e.type = "multi"
       THEN [s EXCEPT !.i = s.i + r.n, !.e = s.e \o r.e.raw]
     ELSE [s EXCEPT !.i = s.i + r.n, !.e = Append(s.e, r.e)]

\* one iteration of for i < len(buf): s.i is i, s.paste is d.paste, s.e the
\* events, s.acc the accumulator as the last PasteEndEvent found it
\* r is what ParseSequence returned; the members of a MultiEvent are appended
\* one by one (the sequence parser modelled here returns none)
readCase(buf, s, r) ==
     IF ~s.paste.nil /\ r.e.type # "pasteend"
     THEN [s EXCEPT !.i = s.i + 1,
                    !.paste = [nil |-> FALSE,
                               buf |-> Append(s.paste.buf, At(buf, s.i))]]
     ELSE IF r.e.type = "unknown"
       THEN LET l == LookupSequence(Slice(buf, s.i, s.i + r.n))
            IN [s EXCEPT !.i = s.i + r.n,
                         !.e = Append(s.e, IF l.ok THEN l.k ELSE r.e)]
     ELSE IF r.e.type = "pastestart"
       THEN [s EXCEPT !.i = s.i + r.n,
                      !.paste = [nil |-> FALSE, buf |-> <<>>],
                      !.e = Append(s.e, r.e)]
     ELSE IF r.e.type = "pasteend"
       THEN [s EXCEPT !.i = s.i + r.n,
                      !.paste = NilPaste,
                      !.e = appendPasteEnd(s.e, pasteRunes(s.paste.buf), r.e),
                      !.acc = s.paste.buf]
     ELSE IF r.e.type = "nil" THEN [s EXCEPT !.i = s.i + 1]
     ELSE IF r.e.type = "multi"
       THEN [s EXCEPT !.i = s.i + r.n, !.e = s.e \o r.e.raw]
     ELSE [s EXCEPT !.i = s.i + r.n, !.e = Append(s.e, r.e)]

\* nb, ev := d.parser.ParseSequence(buf[i:]), then the cases on ev
readStep(buf, s) ==
  readCase(buf, s, ParseSequence(Slice(buf, s.i, Len(buf))))

RECURSIVE readLoop(_, _)
\* for i < len(buf) { ... }
readLoop(buf, s) ==
  IF s.i >= Len(buf) THEN s
  ELSE CHOOSE r \in { readLoop(buf, t) : t \in {readStep(buf, s)} } : TRUE

readEvents(buf, st) ==
  IF lookupFirst(buf, st)
  THEN [i |-> 0, e |-> <<LookupSequence(buf).k>>, paste |-> st, acc |-> <<>>]
  ELSE readLoop(buf, [i |-> 0, e |-> <<>>, paste |-> st, acc |-> <<>>])

\* peekInput as a function of the buffered bytes: the table lookup, then the
\* loop run for at most fuel iterations (done is FALSE when it did not end)
RECURSIVE RunLoop(_, _, _, _)
RunLoop(p, i, ev, fuel) ==
  IF i >= Len(p) THEN [done |-> TRUE, nb |-> i, ev |-> ev]
  ELSE IF fuel = 0 THEN [done |-> FALSE, nb |-> i, ev |-> ev]
  ELSE LET d == Dispatch(p, Len(p), i, ev, FALSE)
       IN RunLoop(p, d.i, d.ev, fuel - 1)

peekInput(p) ==
  IF TableHas(p) THEN [done |-> TRUE, nb |-> Len(p), ev |-> <<TableGet(p)>>]
  ELSE RunLoop(p, 0, <<>>, Len(p) + MaxSpin)

\* ------------------------------------------------------- the text scanner
\* a string is the sequence of its bytes; the scanner cuts it into tokens,
\* an escape sequence (control, width 0) or one rune with its cell width

\* cell width of a rune: 0 for control and combining code points, 2 for the
\* wide East Asian ranges, otherwise 1
RuneWidth(r) ==
  IF r < 32 \/ r = DEL THEN 0
  ELSE IF r >= 768 /\ r <= 879 THEN 0
  ELSE IF (r >= 4352 /\ r <= 4447) \/ (r >= 11904 /\ r <= 42191)
          \/ (r >= 44032 /\ r <= 55203) \/ (r >= 63744 /\ r <= 64255)
          \/ (r >= 65280 /\ r <= 65376) THEN 2
  ELSE 1

\* end of the escape sequence whose parameters and intermediates end at j
EscEnd(s, j) == IF j < Len(s) /\ At(s, j) >= 64 /\ At(s, j) <= 126 THEN j + 1 ELSE j

\* bytes of the escape sequence that begins at i
EscLen(s, i) ==
  IF i + 1 < Len(s) /\ At(s, i + 1) = 91
  THEN EscEnd(s, ScanRange(s, ScanRange(s, i + 2, 48, 63), 32, 47)) - i
  ELSE 1

RuneToken(d) == [n |-> d.w, width |-> RuneWidth(d.r), control |-> FALSE]

\* scanner.Token() at offset i: its bytes are s[i:i+n]
Token(s, i) ==
  IF At(s, i) = ESC THEN [n |-> EscLen(s, i), width |-> 0, control |-> TRUE]
  ELSE RuneToken(DecodeRune(Slice(s, i, Len(s))))

RECURSIVE WidthFrom(_, _)
\* for scanner.Scan() { width += scanner.Width() }
WidthFrom(s, i) ==
  IF i >= Len(s) THEN 0
  ELSE Token(s, i).width + WidthFrom(s, i + Token(s, i).n)

StringWidth(s) == IF s = <<>> THEN 0 ELSE WidthFrom(s, 0)

\* ---------------------------------------------------------------- Transpose
\* writeEscape reaching the last line only
writeEscapeLast(ls, c) ==
  [k \in DOMAIN ls |-> IF k = Len(ls) THEN ls[k] \o c ELSE ls[k]]

\* for i := range lines { lines[i].Write(p) }
writeEscape(ls, c) == [k \in DOMAIN ls |-> ls[k] \o c]

RECURSIVE JoinLines(_, _)
\* the lines from the k-th on, a newline before each but the first
JoinLines(ls, k) ==
  IF k > Len(ls) THEN <<>>
  ELSE (IF k > 1 THEN <<10>> ELSE <<>>) \o ls[k] \o JoinLines(ls, k + 1)

\* ----------------------------------------------------------------- Truncate
\* budget that leaves the tail out
budgetNoTail(length, tw) == length

\* length -= tw
budget(length, tw) == length - tw

\* ----------------------------------------------------------------- Hardwrap
\* unicode.IsSpace
IsSpace(r) ==
  \/ r >= 9 /\ r <= 13
  \/ r \in {32, 133, 160, 5760, 8232, 8233, 8239, 8287, 12288}
  \/ r >= 8192 /\ r <= 8202

\* the locals of Hardwrap: buf, curWidth, forceNewline
\* addNewline := func() { buf.WriteByte('\n'); curWidth = 0 }
addNewline(st) == [st EXCEPT !.buf = @ \o <<10>>, !.curWidth = 0]

\* if r == '\t' { width = 1 }
tabWidth(r, width) == IF r = 9 THEN 1 ELSE width

\* if curWidth+width > limit { addNewline(); forceNewline = true }
breakIfOver(st, width, limit) ==
  IF st.curWidth + width > limit
  THEN [addNewline(st) EXCEPT !.forceNewline = TRUE]
  ELSE st

\* the rest of the iteration, from if curWidth == 0 on
writeCluster(st, cluster, r, width, preserveSpace) ==
  IF st.curWidth = 0 /\ ~preserveSpace /\ IsSpace(r) /\ Len(cluster) <= 4
       /\ r # RuneError /\ st.forceNewline
  THEN st
  ELSE [buf |-> st.buf \o cluster,
        curWidth |-> st.curWidth + width,
        forceNewline |-> IF st.curWidth = 0 THEN FALSE ELSE st.forceNewline]

\* one iteration of the loop of Hardwrap on a cluster with its width and flag
hardwrapStep(st, cluster, width, control, limit, preserveSpace) ==
  IF control THEN [st EXCEPT !.buf = @ \o cluster]
  ELSE IF DecodeRune(cluster).r = 10
    THEN [addNewline(st) EXCEPT !.forceNewline = FALSE]
  ELSE writeCluster(breakIfOver(st, tabWidth(DecodeRune(cluster).r, width),
                                limit),
                    cluster, DecodeRune(cluster).r,
                    tabWidth(DecodeRune(cluster).r, width), preserveSpace)

\* ------------------------------------------------------------------- state
VARIABLES
  drv,     \* the driver constructed: "ansi" (bufio based) or "input"
  src,     \* bytes the underlying reader has not delivered yet
  fed,     \* bytes the underlying reader has delivered
  rdbuf,   \* ansi: bytes buffered in d.rd; input: d.buf[:nb] of the last read
  pc,      \* "idle", "loop" (inside peekInput's loop), "ret" (peekInput returned)
  mode,    \* the running call: "peek" or "read"
  p,       \* the peeked bytes
  i,       \* index of the current byte
  ev,      \* the events collected by the running (or last) call
  iters,   \* iterations of the loop run by the current call
  nb,      \* the count peekInput returned
  last,    \* i and len(ev) when the last iteration began
  ret,     \* what the last completed call returned
  prev,    \* what the call before it returned
  got,     \* the events the completed read calls returned, in order
  paste,   \* input: d.paste, the bracketed paste accumulator
  before,  \* input: d.paste when the last read began
  acc,     \* input: the accumulator the last PasteEndEvent decoded
  reads,   \* input: the reads done
  fn,      \* the text function called: "none", "Transpose", "Truncate" or
           \* "Hardwrap"
  str,     \* text: the string argument s
  args,    \* text: the other arguments: length, tail, limit, preserveSpace
  tpc,     \* text: "enter", "scan" (in the scanner loop) or "done" (returned)
  pos,     \* text: the offset of the scanner
  wbuf,    \* text: the output buffer buf, the result once returned
  prefix,  \* Transpose: the escape sequences met so far
  lines,   \* Transpose: the lines built so far
  curWidth,  \* Truncate: the cells written; Hardwrap: those of the line
  ignoring,  \* Truncate: the tail was written
  forceNewline  \* Hardwrap: the line began by a forced break

ansiVars == <<pc, mode, p, i, iters, nb, last, ret, prev>>

inputVars == <<paste, before, acc, reads>>

textVars ==
  <<fn, str, args, tpc, pos, wbuf, prefix, lines, curWidth, ignoring,
    forceNewline>>

driverVars == <<drv, src, fed, rdbuf, ev, got, ansiVars, inputVars>>

vars == <<driverVars, textVars>>

\* given is the length the caller passed, length the local the code reduces
NoArgs ==
  [length |-> 0, tail |-> <<>>, given |-> 0, limit |-> 0,
   preserveSpace |-> FALSE]

\* no text function is called
TextIdle ==
  /\ fn = "none"
  /\ str = <<>>
  /\ args = NoArgs
  /\ tpc = "done"
  /\ pos = 0
  /\ wbuf = <<>>
  /\ prefix = <<>>
  /\ lines = <<>>
  /\ curWidth = 0
  /\ ignoring = FALSE
  /\ forceNewline = FALSE

NoCall == [call |-> "none", ev |-> <<>>, err |-> FALSE, nb |-> 0, plen |-> 0]

\* --------------------------------------------------------------- the inputs
Alphabet == {ESC, 91, 93, 65, 49, CSI, ST, 128, 255}

\* the sequences over S of length at most n
SeqsUpTo(S, n) == UNION { [1..m -> S] : m \in 0..n }

Samples ==
  { <<ESC, 79, 80>>, <<195, 169>>, <<195, 65>>, <<239, 191, 189>>,
    <<ESC, 91, 77, 32, 10, 20>>, <<ESC, 91, 77, 32, 10, 20, 65>>,
    <<ESC, 91, 60, 48, 59, 49, 59, 50, 77>>,
    <<ESC, 91, 57, 55, 59, 53, 117>>, <<ESC, 91, 57, 55, 117>>,
    <<ESC, 91, 57, 55, 59, 49, 117>>, <<ESC, 91, 57, 55, 59, 50, 58, 51, 117>>,
    <<ESC, 91, 57, 55, 59, 49, 58, 50, 117>>, <<ESC, 91, 57, 55, 59, 117>>,
    <<ESC, 91, 57, 59, 54, 58, 49, 117>>, <<CSI, 57, 55, 59, 53, 117>>,
    <<ESC, 93, 49, 49, 59, 35, 102, 102, BEL>>,
    <<ESC, 93, 49, 49, 59, 35, 102, 102, ESC, 92>>,
    <<ESC, 93, 49, 49, 59, 35, 102, 102, ST>>,
    <<OSC, 49, 48, 59, 35, 102, 102, BEL>>,
    <<ESC, 91, 51, 36>>, <<ESC, 91, 50, 126>>, <<ESC, ESC, 91, 65>>,
    <<DCS, 65, ST>>, <<ESC, 80, 65, ESC, 92>>, <<APC, 65>>, <<ESC, 95, 65, ST>>,
    <<ESC, 80, 65>>, <<ESC, 95, 65>>, <<ESC, 91, 49, 36>>,
    <<65, ESC, 91, 51, 36>>, <<SS3, 80>>, <<ESC, SS3, 65>>, <<ESC, 65>>,
    <<ESC, 9>>, <<SP, 65>>,
    <<65, DEL, 65>>, <<97, ESC, ESC, 91, 65>>, <<ESC, ESC, 91, 51, 36>>,
    <<ESC, ESC, 79, 65>>, <<ESC, 91, 51, 36, BEL>> }

Streams == (SeqsUpTo(Alphabet, MaxLen) \ {<<>>}) \cup Samples

InitAnsi ==
  /\ drv = "ansi"
  /\ fed = <<>>
  /\ rdbuf = <<>>
  /\ pc = "idle"
  /\ mode = "peek"
  /\ p = <<>>
  /\ i = 0
  /\ ev = <<>>
  /\ iters = 0
  /\ nb = 0
  /\ last = [i |-> 0, nev |-> 0]
  /\ ret = NoCall
  /\ prev = NoCall
  /\ got = <<>>
  /\ paste = NilPaste
  /\ before = NilPaste
  /\ acc = <<>>
  /\ reads = 0
  /\ TextIdle

\* ----------------------------------------------------- ansi driver actions
\* p, err := d.rd.Peek(1), then Peek(bufferedBytes), then the table lookup
peekInputEnter(m) ==
  /\ drv = "ansi"
  /\ pc = "idle"
  /\ mode' = m
  /\ iters' = 0
  /\ last' = [i |-> 0, nev |-> 0]
  /\ IF rdbuf = <<>> /\ src = <<>>
     THEN \* the source is at its end: Peek returns the error
          /\ prev' = ret
          /\ ret' = [call |-> m, ev |-> <<>>, err |-> TRUE, nb |-> 0, plen |-> 0]
          /\ UNCHANGED <<src, fed, rdbuf, pc, p, i, ev, nb>>
     ELSE /\ IF rdbuf = <<>>
             THEN \E k \in 1..Len(src) :
                    /\ rdbuf' = SubSeq(src, 1, k)
                    /\ src' = SubSeq(src, k + 1, Len(src))
                    /\ fed' = fed \o SubSeq(src, 1, k)
             ELSE UNCHANGED <<src, fed, rdbuf>>
          /\ p' = rdbuf'
          /\ i' = 0
          /\ IF TableHas(rdbuf')
             THEN /\ pc' = "ret"
                  /\ nb' = Len(rdbuf')
                  /\ ev' = <<TableGet(rdbuf')>>
             ELSE /\ pc' = "loop"
                  /\ nb' = 0
                  /\ ev' = <<>>
          /\ UNCHANGED <<ret, prev>>
  /\ UNCHANGED <<textVars, drv, got, inputVars>>

PeekInput == peekInputEnter("peek")

ReadInput == peekInputEnter("read")

\* one iteration of for i < len(p)
LoopIter ==
  /\ pc = "loop"
  /\ i < Len(p)
  /\ iters < Len(p) + MaxSpin
  /\ LET d == Dispatch(p, Len(p), i, ev, FALSE)
     IN /\ i' = d.i
        /\ ev' = d.ev
  /\ iters' = iters + 1
  /\ last' = [i |-> i, nev |-> Len(ev)]
  /\ UNCHANGED <<textVars, drv, src, fed, rdbuf, pc, mode, p, nb, ret, prev,
                 got, inputVars>>

\* return i, ev, nil
LoopExit ==
  /\ pc = "loop"
  /\ i >= Len(p)
  /\ pc' = "ret"
  /\ nb' = i
  /\ UNCHANGED <<textVars, drv, src, fed, rdbuf, mode, p, i, ev, iters, last,
                 ret, prev, got, inputVars>>

\* PeekInput returns the events
PeekReturn ==
  /\ pc = "ret"
  /\ mode = "peek"
  /\ pc' = "idle"
  /\ prev' = ret
  /\ ret' = [call |-> "peek", ev |-> ev, err |-> FALSE, nb |-> nb,
             plen |-> Len(p)]
  /\ UNCHANGED <<textVars, drv, src, fed, rdbuf, mode, p, i, ev, iters, nb,
                 last, got, inputVars>>

\* d.rd.Discard(nb), then ReadInput returns the events
ReadReturn ==
  /\ pc = "ret"
  /\ mode = "read"
  /\ pc' = "idle"
  /\ prev' = ret
  /\ IF nb <= Len(rdbuf)
     THEN /\ rdbuf' = Slice(rdbuf, nb, Len(rdbuf))
          /\ UNCHANGED <<src, fed>>
          /\ ret' = [call |-> "read", ev |-> ev, err |-> FALSE, nb |-> nb,
                     plen |-> Len(p)]
          /\ got' = got \o ev
     ELSE LET remain == nb - Len(rdbuf)
          IN IF remain <= Len(src)
             THEN \* Discard fills from the source until nb bytes are skipped
                  \E k \in remain..Len(src) :
                    /\ rdbuf' = Slice(src, remain, k)
                    /\ src' = Slice(src, k, Len(src))
                    /\ fed' = fed \o Slice(src, 0, k)
                    /\ ret' = [call |-> "read", ev |-> ev, err |-> FALSE,
                               nb |-> nb, plen |-> Len(p)]
                    /\ got' = got \o ev
             ELSE \* the source ends first: Discard fails, the events are lost
                  /\ rdbuf' = <<>>
                  /\ src' = <<>>
                  /\ fed' = fed \o src
                  /\ ret' = [call |-> "read", ev |-> <<>>, err |-> TRUE,
                             nb |-> nb, plen |-> Len(p)]
                  /\ got' = got
  /\ UNCHANGED <<textVars, drv, mode, p, i, ev, iters, nb, last, inputVars>>

\* ---------------------------------------------------- input driver inputs
Tokens ==
  { PasteStartSeq, PasteEndSeq, <<97>>, <<ESC, 91, 65>>, <<239, 191, 189>>,
    <<255>>, <<195, 169>> }

RECURSIVE Flatten(_)
Flatten(ss) == IF ss = <<>> THEN <<>> ELSE Head(ss) \o Flatten(Tail(ss))

TokenStreams ==
  { Flatten(ts) : ts \in (SeqsUpTo(Tokens, MaxTokens) \ {<<>>}) }

InitInput ==
  /\ drv = "input"
  /\ src \in TokenStreams
  /\ fed = <<>>
  /\ rdbuf = <<>>
  /\ pc = "idle"
  /\ mode = "read"
  /\ p = <<>>
  /\ i = 0
  /\ ev = <<>>
  /\ iters = 0
  /\ nb = 0
  /\ last = [i |-> 0, nev |-> 0]
  /\ ret = NoCall
  /\ prev = NoCall
  /\ got = <<>>
  /\ paste = NilPaste
  /\ before = NilPaste
  /\ acc = <<>>
  /\ reads = 0
  /\ TextIdle

\* nb, err := d.rd.Read(d.buf[:]) delivering k bytes, then the decoding
ReadEvents ==
  /\ drv = "input"
  /\ src # <<>>
  /\ reads < MaxReads
  /\ \E k \in 1..Len(src) :
       /\ (reads + 1 < MaxReads \/ k = Len(src))
       /\ LET buf == SubSeq(src, 1, k)
              r == readEvents(buf, paste)
          IN /\ rdbuf' = buf
             /\ src' = SubSeq(src, k + 1, Len(src))
             /\ fed' = fed \o buf
             /\ ev' = r.e
             /\ got' = got \o r.e
             /\ paste' = r.paste
             /\ acc' = r.acc
             /\ ret' = [call |-> "read", ev |-> r.e, err |-> FALSE, nb |-> k,
                        plen |-> k]
  /\ prev' = ret
  /\ before' = paste
  /\ reads' = reads + 1
  /\ UNCHANGED <<textVars, drv, pc, mode, p, i, iters, nb, last>>

\* nb, err := d.rd.Read(d.buf[:]) failing (the source ended, failed or was
\* cancelled): return nil, err; no byte of d.buf is decoded
ReadEventsFail ==
  /\ drv = "input"
  /\ ev' = <<>>
  /\ prev' = ret
  /\ ret' = [call |-> "read", ev |-> <<>>, err |-> TRUE, nb |-> 0, plen |-> 0]
  /\ rdbuf' = <<>>
  /\ before' = paste
  /\ UNCHANGED <<textVars, src, fed, got, paste, acc, reads, drv, pc,
                 mode, p, i, iters, nb, last>>

\* ------------------------------------------------------ the text functions
\* number of tokens of a string argument
MaxTextTokens == 3

\* a, b, a wide rune, a combining mark, and two escape sequences
TextTokens ==
  { <<97>>, <<98>>, <<228, 184, 150>>, <<204, 129>>,
    <<ESC, 91, 49, 109>>, <<ESC, 91, 109>> }

TextStrings == { Flatten(ts) : ts \in SeqsUpTo(TextTokens, MaxTextTokens) }

\* no driver is constructed
NoDriver ==
  /\ drv = "none"
  /\ src = <<>>
  /\ fed = <<>>
  /\ rdbuf = <<>>
  /\ pc = "idle"
  /\ mode = "peek"
  /\ p = <<>>
  /\ i = 0
  /\ ev = <<>>
  /\ iters = 0
  /\ nb = 0
  /\ last = [i |-> 0, nev |-> 0]
  /\ ret = NoCall
  /\ prev = NoCall
  /\ got = <<>>
  /\ paste = NilPaste
  /\ before = NilPaste
  /\ acc = <<>>
  /\ reads = 0

\* the locals of a text function at its first statement
TextLocals ==
  /\ pos = 0
  /\ wbuf = <<>>
  /\ prefix = <<>>
  /\ lines = <<>>
  /\ curWidth = 0
  /\ ignoring = FALSE
  /\ forceNewline = FALSE

\* Transpose(s) is called
InitTranspose ==
  /\ NoDriver
  /\ fn = "Transpose"
  /\ str \in TextStrings
  /\ args = NoArgs
  /\ tpc = "scan"
  /\ TextLocals

\* one iteration of for scanner.Scan() in Transpose
TransposeScan ==
  /\ fn = "Transpose"
  /\ tpc = "scan"
  /\ pos < Len(str)
  /\ pos' = pos + Token(str, pos).n
  /\ IF Token(str, pos).control
     THEN /\ prefix' = prefix \o Slice(str, pos, pos')
          /\ lines' = writeEscape(lines, Slice(str, pos, pos'))
     ELSE /\ lines' = Append(lines, prefix \o Slice(str, pos, pos'))
          /\ UNCHANGED prefix
  /\ UNCHANGED <<driverVars, fn, str, args, tpc, wbuf, curWidth, ignoring,
                 forceNewline>>

\* the lines joined by newlines, return sb.String()
TransposeReturn ==
  /\ fn = "Transpose"
  /\ tpc = "scan"
  /\ pos >= Len(str)
  /\ wbuf' = JoinLines(lines, 1)
  /\ tpc' = "done"
  /\ UNCHANGED <<driverVars, fn, str, args, pos, prefix, lines, curWidth,
                 ignoring, forceNewline>>

Init == (InitAnsi /\ src \in Streams) \/ InitInput

Next ==
  \/ PeekInput
  \/ ReadInput
  \/ LoopIter
  \/ LoopExit
  \/ PeekReturn
  \/ ReadReturn
  \/ ReadEvents
  \/ ReadEventsFail

Spec == Init /\ [][Next]_vars

\* the ansi driver alone
NextAnsi ==
  \/ PeekInput
  \/ ReadInput
  \/ LoopIter
  \/ LoopExit
  \/ PeekReturn
  \/ ReadReturn

\* the bytes that select a parser after ESC: O P [ ] _
Special == {79, 80, 91, 93, 95}

\* every byte B alone, and every ESC B
InitAlt ==
  /\ InitAnsi
  /\ \E b \in (0..255) \ Special : src \in {<<b>>, <<ESC, b>>}

SpecAlt == InitAlt /\ [][NextAnsi]_vars

\* longest length passed to Truncate
MaxLength == 3

\* nothing, a dot, a wide rune, an escape sequence and a dot
Tails == { <<>>, <<46>>, <<228, 184, 150>>, <<ESC, 91, 109, 46>> }

\* Truncate(s, length, tail) is called
InitTruncate ==
  /\ NoDriver
  /\ fn = "Truncate"
  /\ str \in TextStrings
  /\ \E n \in 0..MaxLength, t \in Tails :
       args = [NoArgs EXCEPT !.length = n, !.tail = t, !.given = n]
  /\ tpc = "enter"
  /\ TextLocals

\* the statements before the loop: the string fits, or the tail does not
TruncateEnter ==
  /\ fn = "Truncate"
  /\ tpc = "enter"
  /\ IF StringWidth(str) <= args.length
     THEN /\ wbuf' = str
          /\ tpc' = "done"
          /\ UNCHANGED args
     ELSE /\ args' = [args EXCEPT
                        !.length = budget(@, StringWidth(args.tail))]
          /\ tpc' = IF args'.length < 0 THEN "done" ELSE "scan"
          /\ UNCHANGED wbuf
  /\ UNCHANGED <<driverVars, fn, str, pos, prefix, lines, curWidth, ignoring,
                 forceNewline>>

\* one iteration of for scanner.Scan() in Truncate
TruncateScan ==
  /\ fn = "Truncate"
  /\ tpc = "scan"
  /\ pos < Len(str)
  /\ pos' = pos + Token(str, pos).n
  /\ IF Token(str, pos).control
     THEN /\ wbuf' = wbuf \o Slice(str, pos, pos')
          /\ UNCHANGED <<curWidth, ignoring>>
     ELSE IF ignoring THEN UNCHANGED <<wbuf, curWidth, ignoring>>
     ELSE IF curWidth + Token(str, pos).width > args.length
       THEN /\ ignoring' = TRUE
            /\ wbuf' = wbuf \o args.tail
            /\ UNCHANGED curWidth
     ELSE /\ curWidth' = curWidth + Token(str, pos).width
          /\ wbuf' = wbuf \o Slice(str, pos, pos')
          /\ UNCHANGED ignoring
  /\ UNCHANGED <<driverVars, fn, str, args, tpc, prefix, lines, forceNewline>>

\* return buf.String()
TruncateReturn ==
  /\ fn = "Truncate"
  /\ tpc = "scan"
  /\ pos >= Len(str)
  /\ tpc' = "done"
  /\ UNCHANGED <<driverVars, fn, str, args, pos, wbuf, prefix, lines,
                 curWidth, ignoring, forceNewline>>

\* widest limit passed to Hardwrap
MaxLimit == 3

\* the tokens of the strings passed to Hardwrap: those above, a space, a
\* newline and a tab
WrapTokens == TextTokens \cup { <<32>>, <<10>>, <<9>> }

WrapStrings == { Flatten(ts) : ts \in SeqsUpTo(WrapTokens, MaxTextTokens) }

\* Hardwrap(s, limit, preserveSpace) is called
InitHardwrap ==
  /\ NoDriver
  /\ fn = "Hardwrap"
  /\ str \in WrapStrings
  /\ \E n \in 0..MaxLimit, b \in BOOLEAN :
       args = [NoArgs EXCEPT !.limit = n, !.preserveSpace = b]
  /\ tpc = "enter"
  /\ TextLocals

\* if limit < 1 { return s }
HardwrapEnter ==
  /\ fn = "Hardwrap"
  /\ tpc = "enter"
  /\ IF args.limit < 1
     THEN wbuf' = str /\ tpc' = "done"
     ELSE tpc' = "scan" /\ UNCHANGED wbuf
  /\ UNCHANGED <<driverVars, fn, str, args, pos, prefix, lines, curWidth,
                 ignoring, forceNewline>>

\* the locals of Hardwrap after the iteration on the token at pos
hardwrapNext ==
  hardwrapStep([buf |-> wbuf, curWidth |-> curWidth,
                forceNewline |-> forceNewline],
               Slice(str, pos, pos + Token(str, pos).n),
               Token(str, pos).width, Token(str, pos).control,
               args.limit, args.preserveSpace)

\* one iteration of for scanner.Scan() in Hardwrap
HardwrapScan ==
  /\ fn = "Hardwrap"
  /\ tpc = "scan"
  /\ pos < Len(str)
  /\ pos' = pos + Token(str, pos).n
  /\ wbuf' = hardwrapNext.buf
  /\ curWidth' = hardwrapNext.curWidth
  /\ forceNewline' = hardwrapNext.forceNewline
  /\ UNCHANGED <<driverVars, fn, str, args, tpc, prefix, lines, ignoring>>

\* return buf.String()
HardwrapReturn ==
  /\ fn = "Hardwrap"
  /\ tpc = "scan"
  /\ pos >= Len(str)
  /\ tpc' = "done"
  /\ UNCHANGED <<driverVars, fn, str, args, pos, wbuf, prefix, lines,
                 curWidth, ignoring, forceNewline>>

\* the text functions alone
InitText == InitTranspose \/ InitTruncate \/ InitHardwrap

NextText ==
  \/ TransposeScan
  \/ TransposeReturn
  \/ TruncateEnter
  \/ TruncateScan
  \/ TruncateReturn
  \/ HardwrapEnter
  \/ HardwrapScan
  \/ HardwrapReturn

SpecText == InitText /\ [][NextText]_vars

\* ------------------------------------------------------------------ claims
\* C1: a decode pass that returns reports a consumed count equal to the
\* number of buffered bytes len(p), never more, for every buffer.
C1_ByteConservation == (drv = "ansi" /\ pc = "ret") => nb = Len(p)

\* C2: every iteration of the dispatch loop advances the index by at least
\* one byte.
C2_LoopAdvances == (pc = "loop" /\ iters > 0) => i > last.i

\* the bytes of p from index s on are a sequence that has not reached its
\* terminator: a CSI with parameter and intermediate bytes only, or an
\* OSC / DCS / APC without terminator
IsCsiIntro(q) ==
  q # <<>> /\ (q[1] = CSI \/ (Len(q) >= 2 /\ q[1] = ESC /\ q[2] = 91))

IsOscIntro(q) ==
  q # <<>> /\ (q[1] = OSC \/ (Len(q) >= 2 /\ q[1] = ESC /\ q[2] = 93))

IsCtrlIntro(q) ==
  q # <<>> /\ (q[1] \in {DCS, APC}
               \/ (Len(q) >= 2 /\ q[1] = ESC /\ q[2] \in {80, 95}))

Unfinished(q) ==
  \/ /\ IsCsiIntro(q)
     /\ ScanRange(q, ScanRange(q, IntroLen(q), 48, 63), 32, 47) = Len(q)
  \/ /\ IsOscIntro(q)
     /\ ScanUntil(q, IntroLen(q), {BEL, ESC, ST}) = Len(q)
  \/ /\ IsCtrlIntro(q)
     /\ ScanUntil(q, IntroLen(q), {ST, ESC}) = Len(q)

\* an unfinished sequence, or ESC (the Alt prefix) before one
UnfinishedOrAlt(q) ==
  \/ Unfinished(q)
  \/ Len(q) >= 2 /\ q[1] = ESC /\ Unfinished(Tail(q))

\* the last iteration of the loop was dispatched on an unfinished sequence
AtUnfinished ==
  /\ drv = "ansi"
  /\ pc = "loop"
  /\ iters > 0
  /\ last.i < Len(p)
  /\ UnfinishedOrAlt(Slice(p, last.i, Len(p)))

\* C3 as stated: when the buffer ends inside a sequence that has not reached
\* its terminator, the decoder consumes none of its bytes and emits no event.
C3_IncompleteConsumesNothing ==
  AtUnfinished => (i = last.i /\ Len(ev) = last.nev)

\* C4: for every byte B other than O P [ ] _ the buffer ESC B decodes to one
\* event, the event of the buffer B with Alt added, and consumes 2 bytes.
C4_AltPrefix ==
  (drv = "ansi" /\ pc = "ret" /\ Len(p) = 2 /\ p[1] = ESC
     /\ p[2] \notin Special) =>
    LET one == peekInput(<<p[2]>>)
    IN /\ one.done
       /\ Len(one.ev) = 1
       /\ nb = 2
       /\ ev = <<WithAlt(one.ev[1])>>

\* C5: a buffer that is exactly a key of the table decodes to the one key
\* event the table maps it to and is consumed whole, without a pass of the
\* dispatch loop, in peekInput and in readEvents.
C5_TableFastPath ==
  /\ (drv = "ansi" /\ pc = "ret" /\ TableHas(p)) =>
       (nb = Len(p) /\ ev = <<TableGet(p)>> /\ iters = 0)
  /\ (drv = "input" /\ reads > 0 /\ TableHas(rdbuf)) =>
       (ev = <<TableGet(rdbuf)>> /\ paste = before)

C5_Witness ==
  /\ drv = "input"
  /\ reads > 0
  /\ rdbuf = <<ESC, 91, 65>>
  /\ ~before.nil
  /\ ev = <<KeyEvent("Up", <<>>, {})>>

\* the types of a list of events
Types(es) == [k \in 1..Len(es) |-> es[k].type]

\* no suffix of c is a prefix of the paste-end marker, and the marker does
\* not occur in c
EndFree(c) ==
  \A k \in 1..Len(c) :
    LET m == IF Len(c) - k + 1 < Len(PasteEndSeq) THEN Len(c) - k + 1
             ELSE Len(PasteEndSeq)
    IN SubSeq(c, k, k + m - 1) # SubSeq(PasteEndSeq, 1, m)

\* s is the paste-start marker, a payload and the paste-end marker
IsPasteStream(s) ==
  /\ Len(s) >= Len(PasteStartSeq) + Len(PasteEndSeq)
  /\ SubSeq(s, 1, 6) = PasteStartSeq
  /\ SubSeq(s, Len(s) - 5, Len(s)) = PasteEndSeq
  /\ EndFree(SubSeq(s, 7, Len(s) - 6))

PayloadOf(s) == SubSeq(s, 7, Len(s) - 6)

\* a whole paste stream was decoded by one read
WholePasteRead ==
  /\ drv = "input"
  /\ reads = 1
  /\ src = <<>>
  /\ IsPasteStream(fed)
  /\ ~TableHas(fed)

\* C6 as stated: the events of a paste are PasteStart, PasteEnd, Paste(text).
C6_PasteEndThenPaste ==
  WholePasteRead => Types(got) = <<"pastestart", "pasteend", "paste">>

\* C6 amended: the events of a paste are PasteStart, Paste(text), PasteEnd:
\* the single Paste event precedes PasteEnd, and in every run each Paste
\* event is directly followed by a PasteEnd event.
C6_PasteThenPasteEnd ==
  /\ WholePasteRead =>
       /\ Types(got) = <<"pastestart", "paste", "pasteend">>
       /\ got[2].runes = pasteRunes(PayloadOf(fed))
  /\ drv = "input" =>
       \A k \in 1..Len(got) :
         got[k].type = "paste" =>
           (k < Len(got) /\ got[k + 1].type = "pasteend")

C6_Witness ==
  /\ WholePasteRead
  /\ PayloadOf(fed) = <<97>>
  /\ got[2] = PasteEvent(<<97>>)

\* C7: while pasting, the bytes of a read that holds no part of the
\* paste-end marker are all appended to the accumulator, in order, and the
\* read returns no event.
C7_PasteNotReinterpreted ==
  (drv = "input" /\ reads > 0 /\ ~before.nil /\ EndFree(rdbuf)) =>
    /\ paste = [nil |-> FALSE, buf |-> before.buf \o rdbuf]
    /\ ev = <<>>

RECURSIVE ValidRunesFrom(_, _)
ValidRunesFrom(bytes, k) ==
  IF k >= Len(bytes) THEN <<>>
  ELSE CHOOSE rs \in
         { (IF ValidRuneAt(t) THEN <<DecodeRune(t).r>> ELSE <<>>)
             \o ValidRunesFrom(bytes, k + DecodeRune(t).w) :
           t \in {Slice(bytes, k, Len(bytes))} } : TRUE

\* the validly encoded code points of bytes, in order; only invalid bytes
\* are dropped
ValidRunes(bytes) == ValidRunesFrom(bytes, 0)

\* C8: the Paste event carries every validly encoded code point of the
\* accumulator, in order, and after PasteEnd the accumulator is nil.
C8_PasteDecoding ==
  (drv = "input" /\ reads > 0) =>
    LET ks == {k \in 1..Len(ev) : ev[k].type = "paste"}
    IN ks # {} =>
         /\ \E k \in ks : /\ \A m \in ks : m <= k
                          /\ ev[k].runes = ValidRunes(acc)
         /\ ev[Len(ev)].type = "pasteend" => paste = NilPaste

\* C9: the events of a stream do not depend on how the reads split it: the
\* events of the successive reads, concatenated, are the events of the
\* stream read at once.
C9_FramingIndependent ==
  (drv = "ansi" /\ pc = "idle" /\ src = <<>> /\ rdbuf = <<>>
     /\ ret.call = "read" /\ ~ret.err /\ peekInput(fed).done) =>
    got = peekInput(fed).ev

\* C10: PeekInput leaves the buffer alone: a second PeekInput returns what
\* the first returned, and a ReadInput after a PeekInput returns the events
\* the PeekInput returned.
C10_PeekSideEffectFree ==
  (drv = "ansi" /\ prev.call = "peek" /\ ~prev.err) =>
    /\ ret.call = "peek" => ret = prev
    /\ ret.call = "read" => (~ret.err /\ ret.ev = prev.ev)

\* C11: a buffer ESC [ M followed by the three payload bytes decodes to one
\* mouse event computed from the introducer and all three payload bytes
\* (button, column, row) and consumes 6 bytes.
C11_X10Mouse ==
  (drv = "ansi" /\ pc = "ret" /\ Len(p) = 6
     /\ SubSeq(p, 1, 3) = <<ESC, 91, 77>>) =>
    /\ nb = 6
    /\ ev = <<parseX10MouseEvent(p)>>

\* the bytes of a color reply: an OSC introducer, the identifier 10, 11 or
\* 12, ';', a payload free of terminator bytes, and one terminator
OscTerminators == {<<BEL>>, <<ESC, 92>>, <<ST>>}

OscBodyEnd(q) == ScanUntil(q, IntroLen(q), {BEL, ESC, ST})

IsColorReply(q) ==
  /\ IsOscIntro(q)
  /\ Slice(q, OscBodyEnd(q), Len(q)) \in OscTerminators
  /\ OscBodyEnd(q) >= IntroLen(q) + 3
  /\ Slice(q, IntroLen(q), IntroLen(q) + 3)
       \in {<<49, 48, 59>>, <<49, 49, 59>>, <<49, 50, 59>>}

ColorKind(q) ==
  LET d == At(q, IntroLen(q) + 1)
  IN IF d = 48 THEN "fgcolor" ELSE IF d = 49 THEN "bgcolor" ELSE "cursorcolor"

\* C12: a buffer that is one OSC color reply decodes to the one color event
\* of its identifier (10 foreground, 11 background, 12 cursor) carrying the
\* payload after the ';', and consumes exactly the bytes of the sequence with
\* its terminator, whether the terminator is BEL, ESC \ or the 8-bit ST.
C12_OscColor ==
  (drv = "ansi" /\ pc = "ret" /\ IsColorReply(p)) =>
    /\ nb = Len(p)
    /\ ev = <<ColorEvent(ColorKind(p),
                         Slice(p, IntroLen(p) + 3, OscBodyEnd(p)))>>

\* the last iteration of the loop entered a parser at index last.i: the byte
\* there is an 8-bit introducer, or ESC followed by O P [ ] _
ParserEntered ==
  /\ drv = "ansi"
  /\ pc = "loop"
  /\ iters > 0
  /\ last.i < Len(p)
  /\ \/ At(p, last.i) \in {SS3, DCS, CSI, OSC, APC}
     \/ /\ At(p, last.i) = ESC
        /\ last.i + 1 < Len(p)
        /\ At(p, last.i + 1) \in Special

\* C13: when a parser entered at index i returns an Unknown event and the
\* count n, the payload of the event is p[i:i+n] byte for byte, for every byte
\* value, and the decoding resumes at i+n, inside the buffer.
C13_UnknownCarriesRaw ==
  (ParserEntered /\ Len(ev) = last.nev + 1
     /\ ev[Len(ev)].type = "unknown") =>
    /\ i <= Len(p)
    /\ ev[Len(ev)].raw = Slice(p, last.i, i)

\* C14: a call that returns the error of the byte source returns no event
\* and leaves the driver as it was: the buffered driver has discarded none of
\* the bytes it had buffered, the paste accumulator keeps its value.
C14_SourceErrors ==
  /\ (drv = "ansi" /\ pc = "idle" /\ ret.err) =>
       (ret.ev = <<>> /\ Len(rdbuf) = ret.plen)
  /\ (drv = "input" /\ ret.err) =>
       (ret.ev = <<>> /\ ev = <<>> /\ paste = before)

\* p is one CSI sequence with final byte u and plain decimal parameters,
\* and no key of the table
IsKittySeq(q) ==
  /\ IsCsiIntro(q)
  /\ Len(q) > IntroLen(q)
  /\ q[Len(q)] = 117
  /\ \A k \in (IntroLen(q) + 1)..(Len(q) - 1) : q[k] >= 48 /\ q[k] <= 59
  /\ ~TableHas(q)

\* the parameters of such a sequence
KittyParams(q) == Params(Slice(q, IntroLen(q), Len(q) - 1))

\* C15: a CSI u sequence that is no key of the table decodes to one key
\* event: its Modifiers are the decoding of m-1 when the first sub-value m of
\* the second parameter exceeds 1 and empty otherwise; the second sub-value
\* selects the action, 1 or absent Press, 2 Repeat, 3 Release; and the call
\* consumes exactly the bytes of the sequence.
C15_KittyModifiers ==
  (drv = "ansi" /\ pc = "ret" /\ IsKittySeq(p)) =>
    LET ps == KittyParams(p)
        m == IF Len(ps) > 1 THEN ps[2][1] ELSE 0
        a == IF Len(ps) > 1 /\ Len(ps[2]) > 1 THEN ps[2][2] ELSE 1
    IN /\ nb = Len(p)
       /\ Len(ev) = 1
       /\ ev[1].type = "key"
       /\ ev[1].mod = (IF m > 1 THEN fromKittyMod(m - 1) ELSE {})
       /\ a = 1 => ev[1].action = "press"
       /\ a = 2 => ev[1].action = "repeat"
       /\ a = 3 => ev[1].action = "release"

RECURSIVE EscapesOf(_, _, _)
\* the escape sequences of t between the offsets a and b, in order
EscapesOf(t, a, b) ==
  IF a >= b THEN <<>>
  ELSE (IF Token(t, a).control THEN Slice(t, a, a + Token(t, a).n) ELSE <<>>)
         \o EscapesOf(t, a + Token(t, a).n, b)

RECURSIVE RuneOffsets(_, _)
\* the offsets of the printable runes of t from offset a on, in order
RuneOffsets(t, a) ==
  IF a >= Len(t) THEN <<>>
  ELSE (IF Token(t, a).control THEN <<>> ELSE <<a>>)
         \o RuneOffsets(t, a + Token(t, a).n)

\* the line of the rune at offset a: the escape sequences before it, the
\* rune, the escape sequences after it
LineOf(t, a) ==
  EscapesOf(t, 0, a) \o Slice(t, a, a + Token(t, a).n)
    \o EscapesOf(t, a + Token(t, a).n, Len(t))

\* C16: the result of Transpose has one line per printable rune, in input
\* order, joined by newlines with none at the end; the line of a rune is
\* every escape sequence before the rune, the rune, every escape sequence
\* after it.
C16_Transpose ==
  (fn = "Transpose" /\ tpc = "done") =>
    LET offs == RuneOffsets(str, 0)
    IN wbuf = JoinLines([k \in 1..Len(offs) |-> LineOf(str, offs[k])], 1)

C16_Witness ==
  /\ fn = "Transpose"
  /\ tpc = "done"
  /\ str = <<97, ESC, 91, 109, 98>>
  /\ wbuf = <<97, ESC, 91, 109, 10, ESC, 91, 109, 98>>

RECURSIVE StripFrom(_, _)
\* the bytes of the printable clusters of t from offset a on
StripFrom(t, a) ==
  IF a >= Len(t) THEN <<>>
  ELSE (IF Token(t, a).control THEN <<>> ELSE Slice(t, a, a + Token(t, a).n))
         \o StripFrom(t, a + Token(t, a).n)

\* the result keeps a prefix of the printable clusters of s, then the tail,
\* and holds every escape sequence of s whole and in order, those of the
\* tail between them
CutWithTail ==
  /\ \E k \in 0..Len(StripFrom(str, 0)) :
       StripFrom(wbuf, 0)
         = SubSeq(StripFrom(str, 0), 1, k) \o StripFrom(args.tail, 0)
  /\ \E k \in 0..Len(EscapesOf(str, 0, Len(str))) :
       EscapesOf(wbuf, 0, Len(wbuf))
         = SubSeq(EscapesOf(str, 0, Len(str)), 1, k)
             \o EscapesOf(args.tail, 0, Len(args.tail))
             \o SubSeq(EscapesOf(str, 0, Len(str)), k + 1,
                       Len(EscapesOf(str, 0, Len(str))))

TruncateDone == fn = "Truncate" /\ tpc = "done"

\* C17 as stated: the width of the result is at most length; a string that
\* fits is returned unchanged; otherwise the printable part is a prefix of
\* the printable clusters of s followed by tail, no escape sequence split.
C17_TruncateTailAlways ==
  TruncateDone =>
    /\ StringWidth(wbuf) <= args.given
    /\ StringWidth(str) <= args.given => wbuf = str
    /\ StringWidth(str) > args.given => CutWithTail

\* C17 amended: the width of the result is at most length; a string that
\* fits is returned unchanged; a string that does not fit gives, when the
\* tail fits in length, a prefix of its printable clusters followed by tail
\* with no escape sequence split, and the empty string when the tail is
\* wider than length.
C17_TruncateWidthBound ==
  TruncateDone =>
    /\ StringWidth(wbuf) <= args.given
    /\ StringWidth(str) <= args.given => wbuf = str
    /\ (StringWidth(str) > args.given
          /\ StringWidth(args.tail) <= args.given) => CutWithTail
    /\ (StringWidth(str) > args.given
          /\ StringWidth(args.tail) > args.given) => wbuf = <<>>

C17_Witness ==
  /\ TruncateDone
  /\ str = <<97, ESC, 91, 109, 228, 184, 150>>
  /\ args.given = 2
  /\ args.tail = <<46>>
  /\ wbuf = <<97, ESC, 91, 109, 46>>

\* the last iteration met ESC followed by a byte other than O P [ ] _ and
\* started over at that byte with the Alt flag pending
AltPending ==
  /\ drv = "ansi"
  /\ pc = "loop"
  /\ iters > 0
  /\ last.i + 1 < Len(p)
  /\ At(p, last.i) = ESC
  /\ At(p, last.i + 1) \notin Special

\* end of the bytes a CSI that begins at a (ESC at a, [ at a+1) looks up:
\* through the final byte, or through the last intermediate byte
CsiLookupEnd(q, a) ==
  LET j == ScanRange(q, ScanRange(q, a + 2, 48, 63), 32, 47)
  IN IF j < Len(q) /\ At(q, j) >= 64 /\ At(q, j) <= 126 THEN j + 1 ELSE j

\* end of the bytes an SS3 that begins at a (ESC at a, O at a+1) looks up
Ss3LookupEnd(q, a) ==
  IF a + 2 < Len(q) /\ At(q, a + 2) >= 33 /\ At(q, a + 2) <= 126
  THEN a + 3 ELSE a + 2

\* the sequence the parser entered after the ESC at last.i looks up
InnerSeq ==
  IF last.i + 2 < Len(p) /\ At(p, last.i + 1) = ESC
       /\ At(p, last.i + 2) = 91
  THEN Slice(p, last.i + 1, CsiLookupEnd(p, last.i + 1))
  ELSE IF last.i + 2 < Len(p) /\ At(p, last.i + 1) = ESC
            /\ At(p, last.i + 2) = 79
  THEN Slice(p, last.i + 1, Ss3LookupEnd(p, last.i + 1))
  ELSE <<>>

\* C18: when the byte reprocessed with Alt pending begins a CSI or SS3
\* sequence that the parser finds in the table, the one event emitted is the
\* table's key with the Alt modifier added, whether the table is hit by the
\* complete CSI, the truncated CSI or the SS3 sequence, and 1 plus the
\* length of the inner sequence is consumed.
C18_AltPropagates ==
  (AltPending /\ TableHas(InnerSeq)) =>
    /\ Len(ev) = last.nev + 1
    /\ ev[Len(ev)] = WithAlt(TableGet(InnerSeq))
    /\ i = last.i + 1 + Len(InnerSeq)

\* the last iteration was dispatched on a UTF-8 lead byte that is no
\* control, DEL or SPACE
AtLeadByte ==
  /\ drv = "ansi"
  /\ pc = "loop"
  /\ iters > 0
  /\ last.i < Len(p)
  /\ LeadSize(At(p, last.i)) >= 1
  /\ At(p, last.i) > US
  /\ At(p, last.i) \notin {DEL, SP}

\* C19: from a lead byte the decoder emits one key event whose Runes are the
\* maximal run of validly encoded code points that are no control, DEL or
\* SPACE, consumes exactly their bytes, leaving the stopping byte to the next
\* iteration, and the Runes are never empty.
C19_RuneCollection ==
  AtLeadByte =>
    /\ Len(ev) = last.nev + 1
    /\ ev[Len(ev)] = KeyEvent("", CollectValid(p, last.i, <<>>).runes, {})
    /\ i = CollectValid(p, last.i, <<>>).i
    /\ ev[Len(ev)].runes # <<>>

\* index of the byte that follows the parameter and intermediate bytes of the
\* CSI sequence that begins at a
CsiScanEnd(q, a) ==
  ScanRange(q, ScanRange(q, a + (IF At(q, a) = ESC THEN 2 ELSE 1), 48, 63),
            32, 47)

\* the last iteration entered the CSI parser at last.i, parameter or
\* intermediate bytes follow the introducer and the byte after them is
\* outside 0x40-0x7E
AtMalformedCsi ==
  /\ ParserEntered
  /\ IsCsiIntro(Slice(p, last.i, Len(p)))
  /\ CsiScanEnd(p, last.i) > last.i + IntroLen(Slice(p, last.i, Len(p)))
  /\ CsiScanEnd(p, last.i) < Len(p)
  /\ (At(p, CsiScanEnd(p, last.i)) < 64 \/ At(p, CsiScanEnd(p, last.i)) > 126)

\* C20: a CSI followed by a byte outside 0x40-0x7E gives one event, the
\* table's key when the bytes before the offending byte are a table key,
\* otherwise an Unknown event carrying those bytes; only those bytes are
\* consumed and the offending byte is dispatched next.
C20_MalformedCsi ==
  AtMalformedCsi =>
    LET scanned == Slice(p, last.i, CsiScanEnd(p, last.i))
    IN /\ Len(ev) = last.nev + 1
       /\ ev[Len(ev)] = IF TableHas(scanned) THEN TableGet(scanned)
                        ELSE UnknownEvent(scanned)
       /\ i = CsiScanEnd(p, last.i)

RECURSIVE LineWidth(_, _)
\* the width of the line t from offset a on: the cell widths of its clusters
\* that are no escape sequence, a tab counted as 1
LineWidth(t, a) ==
  IF a >= Len(t) THEN 0
  ELSE (IF Token(t, a).control THEN 0
        ELSE tabWidth(DecodeRune(Slice(t, a, Len(t))).r, Token(t, a).width))
         + LineWidth(t, a + Token(t, a).n)

\* Hardwrap returned for a limit of at least 1
HardwrapDone == fn = "Hardwrap" /\ tpc = "done" /\ args.limit >= 1

\* C21: for every string and every limit of at least 1, every line of the
\* result of Hardwrap has a width of at most limit, also when the string
\* holds clusters of width 2 and limit is 1; the escape sequences of the
\* string are in the result, unchanged and in order.
C21_HardwrapLimit ==
  HardwrapDone =>
    /\ \A k \in 1..Len(SplitBy(wbuf, 10)) :
         LineWidth(SplitBy(wbuf, 10)[k], 0) <= args.limit
    /\ EscapesOf(wbuf, 0, Len(wbuf)) = EscapesOf(str, 0, Len(str))
\* a driver that has emitted the events es[1..k] is Pasting: the last paste
\* marker among them is a PasteStart (a new driver is Idle)
PastingAfter(es, k) ==
  \E m \in 1..k :
    /\ es[m].type = "pastestart"
    /\ \A n \in (m + 1)..k : es[n].type \notin {"pastestart", "pasteend"}

\* C22: over any sequence of reads a Paste event is emitted only when the
\* driver goes from Pasting to Idle: a paste-end marker decoded while the
\* driver is Idle emits no Paste event, and leaves the accumulator nil.
C22_PasteOnlyCloses ==
  drv = "input" =>
    /\ \A k \in 1..Len(got) :
         got[k].type = "paste" => PastingAfter(got, k - 1)
    /\ \A k \in 1..Len(got) :
         (got[k].type = "pasteend" /\ k = Len(got)) => paste = NilPaste
RECURSIVE LoopStates(_, _)
\* the states of the loop of readEvents on buf from the state s on, one per
\* iteration and the one the loop ends in
LoopStates(buf, s) ==
  IF s.i >= Len(buf) THEN {s}
  ELSE {s} \cup LoopStates(buf, readStep(buf, s))

RECURSIVE StepN(_, _, _)
\* the state n iterations after s
StepN(buf, s, n) ==
  IF n = 0 \/ s.i >= Len(buf) THEN s ELSE StepN(buf, readStep(buf, s), n - 1)

\* the loop states of the last read
LastReadStates ==
  IF reads = 0 \/ ret.err \/ lookupFirst(rdbuf, before) THEN {}
  ELSE LoopStates(rdbuf, [i |-> 0, e |-> <<>>, paste |-> before,
                          acc |-> <<>>])

\* the loop is at a paste-start marker while the driver is Pasting
NestedStart(buf, s) ==
  /\ ~s.paste.nil
  /\ s.i + Len(PasteStartSeq) <= Len(buf)
  /\ Slice(buf, s.i, s.i + Len(PasteStartSeq)) = PasteStartSeq

\* C23: a paste-start marker decoded while the driver is Pasting does not
\* reset the accumulator and emits no event: its bytes are appended to the
\* accumulator and the driver stays Pasting; no PasteStart event is emitted
\* while Pasting, and the accumulator is non-nil exactly between an emitted
\* PasteStart and the PasteEnd that follows it.
C23_NoNestedPaste ==
  drv = "input" =>
    /\ \A s \in LastReadStates :
         NestedStart(rdbuf, s) =>
           StepN(rdbuf, s, Len(PasteStartSeq))
             = [s EXCEPT !.i = s.i + Len(PasteStartSeq),
                         !.paste = [nil |-> FALSE,
                                    buf |-> s.paste.buf \o PasteStartSeq]]
    /\ \A k \in 1..Len(got) :
         got[k].type = "pastestart" => ~PastingAfter(got, k - 1)
    /\ paste.nil <=> ~PastingAfter(got, Len(got))

\* one read decoded a paste-start marker, a second one and a paste-end
\* marker: the paste is the six bytes of the second marker
C23_Witness ==
  /\ drv = "input"
  /\ rdbuf = PasteStartSeq \o PasteStartSeq \o PasteEndSeq
  /\ \E s \in LastReadStates : NestedStart(rdbuf, s)
  /\ got = <<PasteStartEvent, PasteEvent(PasteStartSeq), PasteEndEvent>>
  /\ paste = NilPaste
====
